---- MODULE Spec2Model ----
(***************************************************************************)
(* Model of the `config` command family of cmd/config.go: the sub-commands *)
(* print, info, view and set over the process-wide configuration store     *)
(* (viper), its backing file and the shared logger (util.Logger).          *)
(*                                                                         *)
(* One action models one whole command invocation: the argument validator  *)
(* (Args) followed, when it accepts, by the handler (Run / RunE).          *)
(***************************************************************************)
EXTENDS Integers, Sequences, FiniteSets

(* ------------------------------------------------------------------ *)
(* Bounds                                                             *)
(* ------------------------------------------------------------------ *)

\* Number of command invocations in one run of the model.
MaxOps == 2

(* ------------------------------------------------------------------ *)
(* Program constants                                                  *)
(* ------------------------------------------------------------------ *)

\* config.go:19
LoggingLevels == {"trace", "debug", "info", "warn", "error", "fatal", "panic"}

\* config.go:20
LoggingFormats == {"text", "json", "debug"}

\* config.go:21-25
BoolConfigFields ==
    {"authproxy.verbose", "logging.disableleveltruncation", "logging.padleveltext"}

\* The keys without a validation rule of their own (config.go:28-67).
StringConfigFields ==
    {"authproxy.certfile", "authproxy.keyfile", "authproxy.logdir",
     "authproxy.proxyaddress", "authproxy.proxyport",
     "binarypaths.gcloud", "binarypaths.kubectl"}

\* viper.AllKeys(): the keys of the store, as listed by configInfo.
AllKeys ==
    StringConfigFields \cup BoolConfigFields \cup {"logging.format", "logging.level"}

(* ------------------------------------------------------------------ *)
(* Inputs                                                             *)
(* ------------------------------------------------------------------ *)

\* A key that is not in the store.
UnknownKey == "nonexistent.key"

KeyInputs == AllKeys \cup {UnknownKey}

\* Value strings given to the enumerated and the boolean-typed keys: every
\* level, every format, boolean literals ("T" is a literal whose text is not
\* the text of the boolean it denotes), "warning" (accepted by
\* logrus.ParseLevel but not a member of LoggingLevels) and a free string.
ValueInputs ==
    LoggingLevels \cup LoggingFormats \cup {"true", "false", "T", "warning", "x"}

\* Value strings given to the unchecked string keys and to unknown keys.
StringValueInputs == {"default", "true", "x"}

InputsFor(key) ==
    IF key \in StringConfigFields \/ key = UnknownKey
    THEN StringValueInputs ELSE ValueInputs

\* Argument lists of a `set` invocation: every key with each of its value
\* inputs, and lists of the wrong length (none, one, three arguments).
SetArgLists ==
    {<<k, v>> : k \in KeyInputs, v \in ValueInputs \cup StringValueInputs}
        \cup {<< >>, <<"logging.level">>, <<"logging.level", "debug", "x">>}

SetInputs ==
    {a \in SetArgLists : Len(a) = 2 => a[2] \in InputsFor(a[1])}

\* Argument lists of a `view` invocation.
ViewInputs ==
    {<<k>> : k \in KeyInputs} \cup {<< >>, <<"logging.level", "logging.format">>}

(* ------------------------------------------------------------------ *)
(* Values of the store                                                *)
(* ------------------------------------------------------------------ *)

\* The store holds untyped values (interface{}); a value is its dynamic
\* type and its text.
Str(s) == [t |-> "string", s |-> s]

Bool(b) == [t |-> "bool", s |-> IF b THEN "true" ELSE "false"]

\* `oldVal == args[1]` (config.go:186): an interface value equals a string
\* iff its dynamic type is string and the strings are equal.
InterfaceEqString(v, s) == v.t = "string" /\ v.s = s

\* The %v form of a value, as printed by view and by the `Updated` report.
StringForm(v) == v.s

\* strconv.ParseBool: the literals it accepts.
ParseBoolTrue == {"1", "t", "T", "TRUE", "true", "True"}

ParseBoolFalse == {"0", "f", "F", "FALSE", "false", "False"}

\* strconv.ParseBool's error result.
ParseBoolErr(s) == s \notin ParseBoolTrue \cup ParseBoolFalse

\* strconv.ParseBool's value result (false when it reports an error).
ParseBool(s) == s \in ParseBoolTrue

\* logrus.ParseLevel's error result.
ParseLevelErr(s) ==
    s \notin {"panic", "fatal", "error", "warn", "warning", "info", "debug", "trace"}

\* logrus.ParseLevel's value result.
ParseLevel(s) ==
    CASE s = "panic" -> "PanicLevel"
      [] s = "fatal" -> "FatalLevel"
      [] s = "error" -> "ErrorLevel"
      [] s \in {"warn", "warning"} -> "WarnLevel"
      [] s = "info" -> "InfoLevel"
      [] s = "debug" -> "DebugLevel"
      [] s = "trace" -> "TraceLevel"
      [] OTHER -> "PanicLevel"

(* ------------------------------------------------------------------ *)
(* The backing file                                                   *)
(* ------------------------------------------------------------------ *)

\* Scalars that a YAML reader resolves to a boolean when they are plain.
YamlBoolTrue == {"true", "True", "TRUE"}

YamlBoolFalse == {"false", "False", "FALSE"}

\* One entry of the file: the scalar's text and whether it is quoted.
\* A boolean is written plain; a string is quoted when its plain form would
\* be read back as another type.
Marshal(v) ==
    IF v.t = "bool"
    THEN [quoted |-> FALSE, text |-> v.s]
    ELSE [quoted |-> v.s \in YamlBoolTrue \cup YamlBoolFalse, text |-> v.s]

\* viper.WriteConfig (config.go:219): the whole store is written.
WriteConfig(st) == [k \in AllKeys |-> Marshal(st[k])]

\* Reading one entry back.
Unmarshal(e) ==
    IF e.quoted THEN Str(e.text)
    ELSE IF e.text \in YamlBoolTrue THEN Bool(TRUE)
    ELSE IF e.text \in YamlBoolFalse THEN Bool(FALSE)
    ELSE Str(e.text)

\* A fresh load of the store from the backing file.
Load(f) == [k \in AllKeys |-> Unmarshal(f[k])]

(* ------------------------------------------------------------------ *)
(* State                                                              *)
(* ------------------------------------------------------------------ *)

VARIABLES
    store,      \* the in-memory store (viper): key -> value
    file,       \* the backing file: key -> written scalar
    level,      \* util.Logger.Level
    formatter,  \* util.Logger.Formatter
    last,       \* the most recent invocation: command, arguments, outcome,
                \* and the state it started from
    nops        \* number of invocations so far

vars == <<store, file, level, formatter, last, nops>>

\* The formatter installed for a logging.format value (config.go:209-216).
FormatterFor(v) ==
    CASE v = "debug" -> "RuntimeFormatter"
      [] v = "json" -> "JSONFormatter"
      [] OTHER -> "TextFormatter"

\* The store as loaded at process start: every key of the registry present,
\* boolean-typed keys holding booleans.
DefaultStore ==
    [k \in AllKeys |->
        IF k \in BoolConfigFields THEN Bool(FALSE)
        ELSE IF k = "logging.level" THEN Str("info")
        ELSE IF k = "logging.format" THEN Str("text")
        ELSE Str("default")]

\* The state an invocation starts from.
Snapshot ==
    [store |-> store, file |-> file, level |-> level, formatter |-> formatter]

\* The record of one invocation.
Invocation(op, args, res, ranRunE, wrote, writeFailed, report) ==
    [op |-> op, args |-> args, res |-> res, ranRunE |-> ranRunE,
     wrote |-> wrote, writeFailed |-> writeFailed, report |-> report,
     repeat |-> op = "set" /\ last.op = "set" /\ last.args = args /\ last.wrote,
     pre |-> Snapshot]

Init ==
    /\ store = DefaultStore
    /\ file = WriteConfig(DefaultStore)
    /\ level = ParseLevel("info")
    /\ formatter = FormatterFor("text")
    /\ nops = 0
    /\ last = [op |-> "none", args |-> << >>, res |-> "ok", ranRunE |-> FALSE,
               wrote |-> FALSE, writeFailed |-> FALSE, report |-> "none",
               repeat |-> FALSE,
               pre |-> [store |-> DefaultStore, file |-> WriteConfig(DefaultStore),
                        level |-> ParseLevel("info"),
                        formatter |-> FormatterFor("text")]]

(* ------------------------------------------------------------------ *)
(* config print (config.go:83-102)                                    *)
(* ------------------------------------------------------------------ *)

\* readErr: whether ioutil.ReadFile returns an error.
CmdConfigPrint(readErr) ==
    /\ nops < MaxOps
    /\ nops' = nops + 1
    /\ last' = Invocation("print", << >>,
                          IF readErr THEN "IOError" ELSE "ok", TRUE, FALSE, FALSE,
                          IF readErr THEN "none" ELSE "contents")
    /\ UNCHANGED <<store, file, level, formatter>>

(* ------------------------------------------------------------------ *)
(* config info (config.go:104-113)                                    *)
(* ------------------------------------------------------------------ *)

CmdConfigInfo ==
    /\ nops < MaxOps
    /\ nops' = nops + 1
    /\ last' = Invocation("info", << >>, "ok", TRUE, FALSE, FALSE, "table")
    /\ UNCHANGED <<store, file, level, formatter>>

(* ------------------------------------------------------------------ *)
(* config view (config.go:115-127)                                    *)
(* ------------------------------------------------------------------ *)

\* cobra.ExactValidArgs(1) with ValidArgs = viper.AllKeys().
ValidateView(args) ==
    IF Len(args) # 1 THEN "InvalidArguments"
    ELSE IF args[1] \notin AllKeys THEN "InvalidArguments"
    ELSE "nil"

\* Mutant of CmdConfigView: view also writes the store to the backing file.
CmdConfigViewFlush(args) ==
    /\ nops < MaxOps
    /\ nops' = nops + 1
    /\ last' = IF ValidateView(args) # "nil"
               THEN Invocation("view", args, "InvalidArguments",
                               FALSE, FALSE, FALSE, "none")
               ELSE Invocation("view", args, "ok", TRUE, FALSE, FALSE, "value")
    /\ file' = IF ValidateView(args) # "nil" THEN file ELSE WriteConfig(store)
    /\ UNCHANGED <<store, level, formatter>>

CmdConfigView(args) ==
    /\ nops < MaxOps
    /\ nops' = nops + 1
    /\ last' = IF ValidateView(args) # "nil"
               THEN Invocation("view", args, "InvalidArguments",
                               FALSE, FALSE, FALSE, "none")
               ELSE Invocation("view", args, "ok", TRUE, FALSE, FALSE, "value")
    /\ UNCHANGED <<store, file, level, formatter>>

(* ------------------------------------------------------------------ *)
(* config set (config.go:129-231)                                     *)
(* ------------------------------------------------------------------ *)

\* Mutant of ValidateSet: the boolean-literal check is missing.
ValidateSetNoBoolCheck(args) ==
    IF Len(args) # 2 THEN "InvalidArguments"
    ELSE IF args[1] \notin AllKeys THEN "InvalidArguments"
    ELSE IF args[1] = "logging.level"
         THEN IF args[2] \notin LoggingLevels THEN "InvalidArguments" ELSE "nil"
    ELSE IF args[1] = "logging.format"
         THEN IF args[2] \notin LoggingFormats THEN "InvalidArguments" ELSE "nil"
    ELSE "nil"

\* Mutant of ValidateSet: the level is checked with logrus.ParseLevel
\* instead of membership in LoggingLevels.
ValidateSetParseLevel(args) ==
    IF Len(args) # 2 THEN "InvalidArguments"
    ELSE IF args[1] \notin AllKeys THEN "InvalidArguments"
    ELSE IF args[1] = "logging.level"
         THEN IF ParseLevelErr(args[2]) THEN "InvalidArguments" ELSE "nil"
    ELSE IF args[1] = "logging.format"
         THEN IF args[2] \notin LoggingFormats THEN "InvalidArguments" ELSE "nil"
    ELSE IF args[1] \in BoolConfigFields
         THEN IF ParseBoolErr(args[2]) THEN "InvalidArguments" ELSE "nil"
    ELSE "nil"

\* Args (config.go:133-182).
ValidateSet(args) ==
    IF Len(args) # 2 THEN "InvalidArguments"
    ELSE IF args[1] \notin AllKeys THEN "InvalidArguments"
    ELSE IF args[1] = "logging.level"
         THEN IF args[2] \notin LoggingLevels THEN "InvalidArguments" ELSE "nil"
    ELSE IF args[1] = "logging.format"
         THEN IF args[2] \notin LoggingFormats THEN "InvalidArguments" ELSE "nil"
    ELSE IF args[1] \in BoolConfigFields
         THEN IF ParseBoolErr(args[2]) THEN "InvalidArguments" ELSE "nil"
    ELSE "nil"

\* Mutant of NewValue: the literal string is stored for every key.
NewValueLiteral(key, val) == Str(val)

\* The value viper.Set stores (config.go:190-195).
NewValue(key, val) ==
    IF key \in BoolConfigFields THEN Bool(ParseBool(val)) ELSE Str(val)

\* The error of the logger update (config.go:199-204).
LevelError(key, val) ==
    IF key = "logging.level" /\ ParseLevelErr(val) THEN "InvalidArguments" ELSE "nil"

\* Mutant of LevelAfter: the logger's level is not updated.
LevelAfterStale(key, val) == level

\* util.Logger.Level after the logger update (config.go:198-207).
LevelAfter(key, val) ==
    IF key = "logging.level" /\ ~ParseLevelErr(val) THEN ParseLevel(val) ELSE level

\* Mutant of FormatterAfter: the json case is missing from the switch.
FormatterAfterNoJson(key, val) ==
    IF key = "logging.format"
    THEN IF val = "debug" THEN "RuntimeFormatter" ELSE "TextFormatter"
    ELSE formatter

\* util.Logger.Formatter after the logger update (config.go:208-218).
FormatterAfter(key, val) ==
    IF key = "logging.format" THEN FormatterFor(val) ELSE formatter

\* Mutant of FileAfterWrite: the file is written before viper.Set, from the
\* store as it was.
FileAfterWriteStale(st, writeErr) == IF writeErr THEN file ELSE WriteConfig(store)

\* The backing file after viper.WriteConfig ran on store st (config.go:219):
\* rewritten in full from st, or left as it was when the write fails.
FileAfterWrite(st, writeErr) == IF writeErr THEN file ELSE WriteConfig(st)

\* Mutant of WriteError: the error of viper.WriteConfig is dropped.
WriteErrorIgnored(writeErr) == "nil"

\* The error RunE returns for the write (config.go:219-225).
\* writeErr: whether viper.WriteConfig returns an error.
WriteError(writeErr) == IF writeErr THEN "PersistenceError" ELSE "nil"

\* RunE (config.go:183-228): the state it leaves and what it returns.
RunE(args, writeErr) ==
    LET key == args[1]
        val == args[2]
        oldVal == store[key]
        st == [store EXCEPT ![key] = NewValue(key, val)]
    IN  IF InterfaceEqString(oldVal, val)
        THEN [store |-> store, file |-> file, level |-> level,
              formatter |-> formatter, res |-> "ok", wrote |-> FALSE,
              writeFailed |-> FALSE, report |-> "same"]
        ELSE IF LevelError(key, val) # "nil"
        THEN [store |-> st, file |-> file, level |-> level,
              formatter |-> formatter, res |-> LevelError(key, val),
              wrote |-> FALSE, writeFailed |-> FALSE, report |-> "none"]
        ELSE [store |-> st,
              file |-> FileAfterWrite(st, writeErr),
              level |-> LevelAfter(key, val),
              formatter |-> FormatterAfter(key, val),
              res |-> IF WriteError(writeErr) # "nil"
                      THEN WriteError(writeErr) ELSE "ok",
              wrote |-> ~writeErr,
              writeFailed |-> writeErr,
              report |-> IF WriteError(writeErr) # "nil" THEN "none" ELSE "updated"]

CmdConfigSet(args, writeErr) ==
    /\ nops < MaxOps
    /\ nops' = nops + 1
    /\ IF ValidateSet(args) # "nil"
       THEN /\ last' = Invocation("set", args, ValidateSet(args),
                                  FALSE, FALSE, FALSE, "none")
            /\ UNCHANGED <<store, file, level, formatter>>
       ELSE LET r == RunE(args, writeErr)
            IN  /\ store' = r.store
                /\ file' = r.file
                /\ level' = r.level
                /\ formatter' = r.formatter
                /\ last' = Invocation("set", args, r.res, TRUE, r.wrote,
                                      r.writeFailed, r.report)

(* ------------------------------------------------------------------ *)
(* Specification                                                      *)
(* ------------------------------------------------------------------ *)

Next ==
    \/ \E readErr \in BOOLEAN : CmdConfigPrint(readErr)
    \/ CmdConfigInfo
    \/ \E args \in ViewInputs : CmdConfigView(args)
    \/ \E args \in SetInputs, writeErr \in BOOLEAN : CmdConfigSet(args, writeErr)

Spec == Init /\ [][Next]_vars

(* ------------------------------------------------------------------ *)
(* Properties                                                         *)
(* ------------------------------------------------------------------ *)

\* The last invocation was `set` with a key and a value.
LastIsSet == last.op = "set" /\ Len(last.args) = 2

\* The last invocation left the store, the file and the logger as they were.
LastChangedNothing == Snapshot = last.pre

\* The backing file and the in-memory store agree on every key: loading the
\* file gives the store.
FileAgreesWithStore == \A k \in AllKeys : Unmarshal(file[k]) = store[k]

\* The value a successful set(key, val) is to leave in the store.
AppliedValue(key, val) ==
    IF key \in {"authproxy.verbose", "logging.disableleveltruncation",
                "logging.padleveltext"}
    THEN [t |-> "bool",
          s |-> IF val \in {"1", "t", "T", "TRUE", "true", "True"}
                THEN "true" ELSE "false"]
    ELSE [t |-> "string", s |-> val]

\* The formatter that matches a logging.format value.
MatchingFormatter(val) ==
    IF val = "debug" THEN "RuntimeFormatter"
    ELSE IF val = "json" THEN "JSONFormatter"
    ELSE "TextFormatter"

\* C1: every set invocation that returns success (through the write or
\* through the same-value short-circuit) leaves the backing file and the
\* in-memory store in agreement on every key, and for logging.level /
\* logging.format leaves the logger with the requested level / formatter.
C1_SuccessfulSetAgrees ==
    (LastIsSet /\ last.res = "ok") =>
        /\ FileAgreesWithStore
        /\ last.args[1] = "logging.level" => level = ParseLevel(last.args[2])
        /\ last.args[1] = "logging.format" =>
               formatter = MatchingFormatter(last.args[2])

\* The arguments of the last invocation are ones the validators must reject.
LastArgsInvalid ==
    \/ /\ last.op = "set"
       /\ \/ Len(last.args) # 2
          \/ last.args[1] \notin AllKeys
          \/ last.args[1] = "logging.level" /\ last.args[2] \notin LoggingLevels
          \/ last.args[1] = "logging.format" /\ last.args[2] \notin LoggingFormats
          \/ last.args[1] \in BoolConfigFields /\ ParseBoolErr(last.args[2])
    \/ /\ last.op = "view"
       /\ Len(last.args) = 1
       /\ last.args[1] \notin AllKeys

\* C2: a set with a wrong argument count, an unknown key, a bad level, a bad
\* format or a bad boolean literal, and a view of an unknown key, is rejected
\* with InvalidArguments; every set or view rejected with InvalidArguments
\* is rejected before any mutation (store, file and logger unchanged) and
\* without entering the handler.
C2_RejectedBeforeMutation ==
    /\ LastArgsInvalid => last.res = "InvalidArguments"
    /\ (last.op \in {"set", "view"} /\ last.res = "InvalidArguments") =>
           LastChangedNothing /\ ~last.ranRunE

\* C2 witness: after the store was changed, a set of an unknown key was
\* rejected.
C2_Witness ==
    /\ last.op = "set"
    /\ Len(last.args) = 2
    /\ last.args[1] = UnknownKey
    /\ last.res = "InvalidArguments"
    /\ store # DefaultStore
    /\ store = last.pre.store

\* C3: set(key, v) with v the string form of the key's current value writes
\* nothing, changes neither store nor logger, and returns success; set(k, v)
\* followed at once by set(k, v) writes the file at most once.
C3_Idempotent ==
    /\ (/\ LastIsSet
        /\ last.args[1] \in AllKeys
        /\ StringForm(last.pre.store[last.args[1]]) = last.args[2]) =>
            /\ last.res = "ok"
            /\ ~last.wrote
            /\ LastChangedNothing
    /\ last.repeat => ~last.wrote

\* C4 as stated: for a boolean-typed key, set succeeds iff the value parses
\* as a boolean literal, and a successful set leaves the coerced boolean.
C4_SucceedsIffBoolLiteral ==
    (LastIsSet /\ last.args[1] \in BoolConfigFields) =>
        /\ last.res = "ok" <=> ~ParseBoolErr(last.args[2])
        /\ last.res = "ok" =>
               store[last.args[1]] = AppliedValue(last.args[1], last.args[2])

\* C4 amended: for a boolean-typed key, set passes validation iff the value
\* parses as a boolean literal, and succeeds iff it does and the write of the
\* backing file does not fail; once validation passed the store holds the
\* coerced boolean, and in every state every boolean-typed key holds a
\* boolean.
C4_BoolKeys ==
    /\ (LastIsSet /\ last.args[1] \in BoolConfigFields) =>
        /\ last.res # "InvalidArguments" <=> ~ParseBoolErr(last.args[2])
        /\ last.res = "ok" <=> (~ParseBoolErr(last.args[2]) /\ ~last.writeFailed)
        /\ last.res # "InvalidArguments" =>
               store[last.args[1]] = AppliedValue(last.args[1], last.args[2])
    /\ \A k \in BoolConfigFields : store[k].t = "bool"

\* C4 witness: set(authproxy.verbose, "T") succeeded and the store holds the
\* boolean true.
C4_Witness ==
    /\ LastIsSet
    /\ last.args = <<"authproxy.verbose", "T">>
    /\ last.res = "ok"
    /\ last.pre.store["authproxy.verbose"] = [t |-> "bool", s |-> "false"]
    /\ store["authproxy.verbose"] = [t |-> "bool", s |-> "true"]

\* C5 as stated: for logging.level, set succeeds iff the value is one of the
\* seven levels, and then the logger's level is the parsed value.
C5_SucceedsIffLevel ==
    (LastIsSet /\ last.args[1] = "logging.level") =>
        /\ last.res = "ok" <=> last.args[2] \in LoggingLevels
        /\ last.res = "ok" => level = ParseLevel(last.args[2])

\* C5 amended: for logging.level, set passes validation iff the value is one
\* of the seven levels, and succeeds iff it is and the write of the backing
\* file does not fail; on every successful set the logger's level is the
\* level parsed from the value.
C5_Level ==
    (LastIsSet /\ last.args[1] = "logging.level") =>
        /\ last.res # "InvalidArguments" <=> last.args[2] \in LoggingLevels
        /\ last.res = "ok" <=> (last.args[2] \in LoggingLevels /\ ~last.writeFailed)
        /\ last.res = "ok" => level = ParseLevel(last.args[2])

\* C5 witness: set(logging.level, "debug") on a store whose level is info
\* succeeded and the logger went from InfoLevel to DebugLevel.
C5_Witness ==
    /\ LastIsSet
    /\ last.args = <<"logging.level", "debug">>
    /\ last.res = "ok"
    /\ last.wrote
    /\ last.pre.level = "InfoLevel"
    /\ level = "DebugLevel"

\* C6 as stated: for logging.format, set succeeds iff the value is text, json
\* or debug, and then the installed formatter matches the value.
C6_SucceedsIffFormat ==
    (LastIsSet /\ last.args[1] = "logging.format") =>
        /\ last.res = "ok" <=> last.args[2] \in {"text", "json", "debug"}
        /\ last.res = "ok" => formatter = MatchingFormatter(last.args[2])

\* C6 amended: for logging.format, set passes validation iff the value is
\* text, json or debug, and succeeds iff it is and the write of the backing
\* file does not fail; on every successful set the installed formatter
\* matches the value (debug: runtime, json: JSON, text: text).
C6_Format ==
    (LastIsSet /\ last.args[1] = "logging.format") =>
        /\ last.res # "InvalidArguments" <=> last.args[2] \in {"text", "json", "debug"}
        /\ last.res = "ok" <=>
               (last.args[2] \in {"text", "json", "debug"} /\ ~last.writeFailed)
        /\ last.res = "ok" => formatter = MatchingFormatter(last.args[2])

\* C6 witness: set(logging.format, "json") succeeded and replaced the text
\* formatter by the JSON formatter.
C6_Witness ==
    /\ LastIsSet
    /\ last.args = <<"logging.format", "json">>
    /\ last.res = "ok"
    /\ last.pre.formatter = "TextFormatter"
    /\ formatter = "JSONFormatter"

C8_PersistenceFailure ==
    (LastIsSet /\ last.writeFailed) =>
        /\ last.res = "PersistenceError"
        /\ file = last.pre.file
        /\ store = [last.pre.store EXCEPT
                        ![last.args[1]] = AppliedValue(last.args[1], last.args[2])]
        /\ last.args[1] = "logging.level" => level = ParseLevel(last.args[2])
        /\ last.args[1] = "logging.format" =>
               formatter = MatchingFormatter(last.args[2])
        /\ last.report # "updated"
        /\ ~last.wrote

\* C8 witness: set(logging.level, "trace") failed to persist: the store and
\* the logger carry trace, the file still says info.
C8_Witness ==
    /\ LastIsSet
    /\ last.args = <<"logging.level", "trace">>
    /\ last.writeFailed
    /\ last.res = "PersistenceError"
    /\ store["logging.level"] = [t |-> "string", s |-> "trace"]
    /\ level = "TraceLevel"
    /\ Unmarshal(file["logging.level"]) = [t |-> "string", s |-> "info"]

\* C9: print, info and view, succeeding or failing, leave the store, the
\* backing file and the logger as they were; info always succeeds.
C9_ReadOnlyCommands ==
    /\ last.op \in {"print", "info", "view"} => LastChangedNothing
    /\ last.op = "info" => last.res = "ok"

\* C9 witness: a view succeeded while the store and the backing file
\* disagreed, and left both as they were.
C9_Witness ==
    /\ last.op = "view"
    /\ last.res = "ok"
    /\ ~FileAgreesWithStore
    /\ file = last.pre.file

\* C10: after every invocation the logger's level and formatter correspond
\* to the in-memory store's logging.level and logging.format.
C10_LoggerFollowsStore ==
    /\ level = ParseLevel(StringForm(store["logging.level"]))
    /\ formatter = MatchingFormatter(StringForm(store["logging.format"]))

\* C10 witness: after a failed write the logger differs from what the backing
\* file says and still corresponds to the in-memory store.
C10_Witness ==
    /\ last.res = "PersistenceError"
    /\ level # ParseLevel(StringForm(Unmarshal(file["logging.level"])))
    /\ level = ParseLevel(StringForm(store["logging.level"]))

====
